---- MODULE Spec2Model ----
(***************************************************************************)
(* MySqlToHiveOperator (airflow/providers/apache/hive/transfers/           *)
(* mysql_to_hive.py): the operator's construction, type_map, and execute   *)
(* as a state machine: connect, query, stage the rows in a temporary       *)
(* delimited file, hand the file to the Hive loader.                       *)
(***************************************************************************)
EXTENDS Integers, Sequences, FiniteSets, TLC

VARIABLES
    args,        \* keyword arguments given to __init__
    self,        \* the operator's attributes, as __init__ set them
    db,          \* what the source answers to self.sql: description and rows
    prior,       \* the destination table as it was before execute
    table,       \* the destination Hive table
    pc,          \* position of execute
    conn,        \* source connection: "none", "open", "closed"
    cursor,      \* source cursor: "none", "open", "closed"
    description, \* cursor.description after cursor.execute
    pending,     \* rows the cursor has not yielded yet
    written,     \* rows csv_writer has written so far
    f,           \* the NamedTemporaryFile
    csv_writer,  \* dialect held by the csv writer
    field_dict,  \* the OrderedDict built from cursor.description
    calls,       \* hive.load_file calls made, with their arguments
    exc          \* the exception in flight or raised by execute

vars == <<args, self, db, prior, table, pc, conn, cursor, description, pending,
          written, f, csv_writer, field_dict, calls, exc>>

None == "None"

(***************************************************************************)
(* Characters and their UTF-8 encoding.                                    *)
(***************************************************************************)
LF == "\n"
CR == "\r"
DQUOTE == "\""
COMMA == ","
PIPE == "|"
BACKSLASH == "\\"
EACUTE == "U+00E9"

Chars == {"a", COMMA, PIPE, DQUOTE, LF, CR, BACKSLASH, EACUTE}

\* code point of a character
Ord(c) ==
    CASE c = "a" -> 97
      [] c = COMMA -> 44
      [] c = PIPE -> 124
      [] c = DQUOTE -> 34
      [] c = LF -> 10
      [] c = CR -> 13
      [] c = BACKSLASH -> 92
      [] c = EACUTE -> 233

Chr(n) == CHOOSE c \in Chars : Ord(c) = n

RECURSIVE Flatten(_)
Flatten(ss) == IF ss = <<>> THEN <<>> ELSE Head(ss) \o Flatten(Tail(ss))

\* str.encode("utf-8") of one character (code points below 0x10000)
EncodeChar(c) ==
    LET n == Ord(c) IN
    IF n < 128 THEN <<n>>
    ELSE IF n < 2048 THEN <<192 + (n \div 64), 128 + (n % 64)>>
    ELSE <<224 + (n \div 4096), 128 + ((n \div 64) % 64), 128 + (n % 64)>>

Encode(s) == Flatten([i \in 1..Len(s) |-> EncodeChar(s[i])])

\* bytes.decode("utf-8"): the characters of a well-formed byte sequence
RECURSIVE Decode(_)
Decode(b) ==
    IF b = <<>> THEN <<>>
    ELSE IF b[1] < 128 THEN <<Chr(b[1])>> \o Decode(Tail(b))
    ELSE IF b[1] < 224
         THEN <<Chr((b[1] - 192) * 64 + (b[2] - 128))>> \o Decode(SubSeq(b, 3, Len(b)))
         ELSE <<Chr((b[1] - 224) * 4096 + (b[2] - 128) * 64 + (b[3] - 128))>>
              \o Decode(SubSeq(b, 4, Len(b)))

(***************************************************************************)
(* The csv dialect and writer (unicodecsv.writer over csv.writer).         *)
(***************************************************************************)
QUOTE_MINIMAL == "QUOTE_MINIMAL"
QUOTE_ALL == "QUOTE_ALL"
QUOTE_NONNUMERIC == "QUOTE_NONNUMERIC"
QUOTE_NONE == "QUOTE_NONE"

\* csv.writer defaults the call leaves alone
doublequote == TRUE
lineterminator == <<CR, LF>>

\* the formatting parameters csv.writer is given
Dialect(o) ==
    [delimiter |-> o.delimiter, quoting |-> o.quoting,
     quotechar |-> o.quotechar, escapechar |-> o.escapechar]

InLineterminator(c) == \E i \in 1..Len(lineterminator) : lineterminator[i] = c

\* a character the writer must quote or escape
Special(d, c) ==
    \/ c = d.delimiter
    \/ c = d.escapechar
    \/ c = d.quotechar
    \/ InLineterminator(c)

HasSpecial(d, field) == \E i \in 1..Len(field) : Special(d, field[i])

\* the writer's choice to quote a text field
Quoted(d, field) ==
    \/ d.quoting \in {QUOTE_ALL, QUOTE_NONNUMERIC}
    \/ d.quoting = QUOTE_MINIMAL /\ HasSpecial(d, field)

\* variant: a quote character inside a field is written as it is
EmitCharUndoubled(d, c) ==
    IF Special(d, c) /\ d.quoting = QUOTE_NONE THEN <<d.escapechar, c>> ELSE <<c>>

\* one character of a field as the writer emits it
EmitChar(d, c) ==
    IF Special(d, c)
    THEN IF d.quoting = QUOTE_NONE THEN <<d.escapechar, c>>
         ELSE IF c = d.quotechar
              THEN IF doublequote THEN <<d.quotechar, c>> ELSE <<d.escapechar, c>>
              ELSE <<c>>
    ELSE <<c>>

\* "need to escape, but no escapechar set"
NeedEscapeError(d, field) ==
    /\ d.escapechar = None
    /\ \E i \in 1..Len(field) :
          /\ Special(d, field[i])
          /\ \/ d.quoting = QUOTE_NONE
             \/ field[i] = d.quotechar /\ ~doublequote

\* join_append: one field of the record
JoinAppend(d, field, quoted) ==
    LET body == Flatten([i \in 1..Len(field) |-> EmitChar(d, field[i])])
    IN IF quoted THEN <<d.quotechar>> \o body \o <<d.quotechar>> ELSE body

RECURSIVE JoinFields(_, _)
JoinFields(d, row) ==
    IF row = <<>> THEN <<>>
    ELSE JoinAppend(d, row[1], Quoted(d, row[1]))
         \o (IF Len(row) > 1 THEN <<d.delimiter>> ELSE <<>>)
         \o JoinFields(d, Tail(row))

\* "single empty field record must be quoted"
SingleEmpty(d, row) == Len(row) > 0 /\ JoinFields(d, row) = <<>>

\* csv_writer.writerow: the line written for one row, or the csv.Error raised
WriteRowResult(d, row) ==
    IF \E i \in 1..Len(row) : NeedEscapeError(d, row[i])
    THEN [ok |-> FALSE, line |-> <<>>]
    ELSE IF SingleEmpty(d, row)
    THEN IF d.quoting = QUOTE_NONE
         THEN [ok |-> FALSE, line |-> <<>>]
         ELSE [ok |-> TRUE, line |-> JoinAppend(d, row[1], TRUE) \o lineterminator]
    ELSE [ok |-> TRUE, line |-> JoinFields(d, row) \o lineterminator]

(***************************************************************************)
(* Parsing a staged file with the same delimiter, quote and escape         *)
(* configuration: the csv reader's record grammar.                         *)
(***************************************************************************)
EOL == "EOL"
strict == FALSE

ReaderInit ==
    [st |-> "START_RECORD", field |-> <<>>, numeric |-> FALSE,
     fields |-> <<>>, recs |-> <<>>, err |-> FALSE]

\* parse_save_field: an unquoted field under QUOTE_NONNUMERIC must be a number
SaveField(S) ==
    [S EXCEPT !.fields = Append(@, S.field), !.field = <<>>, !.numeric = FALSE,
              !.err = @ \/ S.numeric]

AddChar(S, c) == [S EXCEPT !.field = Append(@, c)]

EndOfField(S, c) ==
    [SaveField(S) EXCEPT !.st = IF c = EOL THEN "START_RECORD" ELSE "EAT_CRNL"]

StartField(d, S, c) ==
    IF c \in {LF, CR, EOL} THEN EndOfField(S, c)
    ELSE IF c = d.quotechar /\ d.quoting # QUOTE_NONE
    THEN [S EXCEPT !.st = "IN_QUOTED_FIELD"]
    ELSE IF c = d.escapechar THEN [S EXCEPT !.st = "ESCAPED_CHAR"]
    ELSE IF c = d.delimiter THEN [SaveField(S) EXCEPT !.st = "START_FIELD"]
    ELSE [AddChar(S, c) EXCEPT !.st = "IN_FIELD",
                               !.numeric = (d.quoting = QUOTE_NONNUMERIC)]

InField(d, S, c) ==
    IF c \in {LF, CR, EOL} THEN EndOfField(S, c)
    ELSE IF c = d.escapechar THEN [S EXCEPT !.st = "ESCAPED_CHAR"]
    ELSE IF c = d.delimiter THEN [SaveField(S) EXCEPT !.st = "START_FIELD"]
    ELSE [AddChar(S, c) EXCEPT !.st = "IN_FIELD"]

\* parse_process_char
ReaderStep(d, S, c) ==
    CASE S.st = "START_RECORD" ->
            IF c = EOL THEN S
            ELSE IF c \in {LF, CR} THEN [S EXCEPT !.st = "EAT_CRNL"]
            ELSE StartField(d, S, c)
      [] S.st = "START_FIELD" -> StartField(d, S, c)
      [] S.st = "ESCAPED_CHAR" ->
            IF c \in {LF, CR} THEN [AddChar(S, c) EXCEPT !.st = "AFTER_ESCAPED_CRNL"]
            ELSE [AddChar(S, IF c = EOL THEN LF ELSE c) EXCEPT !.st = "IN_FIELD"]
      [] S.st = "AFTER_ESCAPED_CRNL" -> IF c = EOL THEN S ELSE InField(d, S, c)
      [] S.st = "IN_FIELD" -> InField(d, S, c)
      [] S.st = "IN_QUOTED_FIELD" ->
            IF c = EOL THEN S
            ELSE IF c = d.escapechar THEN [S EXCEPT !.st = "ESCAPE_IN_QUOTED_FIELD"]
            ELSE IF c = d.quotechar /\ d.quoting # QUOTE_NONE
            THEN [S EXCEPT !.st = IF doublequote THEN "QUOTE_IN_QUOTED_FIELD"
                                  ELSE "IN_FIELD"]
            ELSE AddChar(S, c)
      [] S.st = "ESCAPE_IN_QUOTED_FIELD" ->
            [AddChar(S, IF c = EOL THEN LF ELSE c) EXCEPT !.st = "IN_QUOTED_FIELD"]
      [] S.st = "QUOTE_IN_QUOTED_FIELD" ->
            IF d.quoting # QUOTE_NONE /\ c = d.quotechar
            THEN [AddChar(S, c) EXCEPT !.st = "IN_QUOTED_FIELD"]
            ELSE IF c = d.delimiter THEN [SaveField(S) EXCEPT !.st = "START_FIELD"]
            ELSE IF c \in {LF, CR, EOL} THEN EndOfField(S, c)
            ELSE IF ~strict THEN [AddChar(S, c) EXCEPT !.st = "IN_FIELD"]
            ELSE [S EXCEPT !.err = TRUE]
      [] S.st = "EAT_CRNL" ->
            IF c \in {LF, CR} THEN S
            ELSE IF c = EOL THEN [S EXCEPT !.st = "START_RECORD"]
            ELSE [S EXCEPT !.err = TRUE]

\* the record is returned once the end of a line leaves the reader at START_RECORD
EmitRecord(S) ==
    IF S.st = "START_RECORD"
    THEN [S EXCEPT !.recs = Append(@, S.fields), !.fields = <<>>]
    ELSE S

\* a line ends after LF, after a CR no LF follows, and at the end of the text
EndsLine(text, i) ==
    \/ text[i] = LF
    \/ text[i] = CR /\ (i = Len(text) \/ text[i + 1] # LF)
    \/ i = Len(text)

RECURSIVE ReaderFeed(_, _, _, _)
ReaderFeed(d, S, text, i) ==
    IF i > Len(text) THEN S
    ELSE LET S1 == ReaderStep(d, S, text[i])
             S2 == IF EndsLine(text, i) THEN EmitRecord(ReaderStep(d, S1, EOL)) ELSE S1
         IN ReaderFeed(d, S2, text, i + 1)

\* the text ends inside a record
ReaderEof(S) ==
    IF S.st # "START_RECORD" /\ (S.field # <<>> \/ S.st = "IN_QUOTED_FIELD")
    THEN LET T == SaveField(S) IN [T EXCEPT !.recs = Append(@, T.fields)]
    ELSE S

\* the rows read back from the bytes of a staged file
Parse(d, bytes) ==
    LET S == ReaderEof(ReaderFeed(d, ReaderInit, Decode(bytes), 1))
    IN [ok |-> ~S.err, rows |-> S.recs]

(***************************************************************************)
(* Python values: an optional dict is None or a sequence of (key, value).  *)
(***************************************************************************)
NoneDict == [none |-> TRUE, items |-> <<>>]
Dict(items) == [none |-> FALSE, items |-> items]

\* truth value of an optional dict: None and {} are falsy
Truthy(m) == ~m.none /\ m.items # <<>>

(***************************************************************************)
(* __init__                                                                *)
(***************************************************************************)
\* quoting or csv.QUOTE_MINIMAL: None and QUOTE_MINIMAL (0) are falsy
QuotingOrDefault(quoting) ==
    IF quoting \in {None, QUOTE_MINIMAL} THEN QUOTE_MINIMAL ELSE quoting

\* partition or {}
PartitionOrEmpty(partition) == IF Truthy(partition) THEN partition ELSE Dict(<<>>)

__init__(a) ==
    [sql |-> a.sql,
     hive_table |-> a.hive_table,
     create |-> a.create,
     recreate |-> a.recreate,
     delimiter |-> a.delimiter,
     quoting |-> QuotingOrDefault(a.quoting),
     quotechar |-> a.quotechar,
     escapechar |-> a.escapechar,
     mysql_conn_id |-> a.mysql_conn_id,
     hive_cli_conn_id |-> a.hive_cli_conn_id,
     partition |-> PartitionOrEmpty(a.partition),
     tblproperties |-> a.tblproperties]

(***************************************************************************)
(* type_map                                                                *)
(***************************************************************************)
\* MySQLdb.constants.FIELD_TYPE
DECIMAL == 0
TINY == 1
SHORT == 2
LONG == 3
FLOAT == 4
DOUBLE == 5
TIMESTAMP == 7
LONGLONG == 8
INT24 == 9
YEAR == 13
BIT == 16
NEWDECIMAL == 246
VAR_STRING == 253

\* variant: LONGLONG mapped like LONG
type_map_narrow(mysql_type) ==
    CASE mysql_type \in {BIT, INT24, SHORT, YEAR} -> "INT"
      [] mysql_type \in {DECIMAL, NEWDECIMAL, DOUBLE, FLOAT} -> "DOUBLE"
      [] mysql_type \in {LONG, LONGLONG} -> "BIGINT"
      [] mysql_type = TINY -> "SMALLINT"
      [] mysql_type = TIMESTAMP -> "TIMESTAMP"
      [] OTHER -> "STRING"

type_map(mysql_type) ==
    CASE mysql_type = BIT -> "INT"
      [] mysql_type = DECIMAL -> "DOUBLE"
      [] mysql_type = NEWDECIMAL -> "DOUBLE"
      [] mysql_type = DOUBLE -> "DOUBLE"
      [] mysql_type = FLOAT -> "DOUBLE"
      [] mysql_type = INT24 -> "INT"
      [] mysql_type = LONG -> "BIGINT"
      [] mysql_type = LONGLONG -> "DECIMAL(38,0)"
      [] mysql_type = SHORT -> "INT"
      [] mysql_type = TINY -> "SMALLINT"
      [] mysql_type = YEAR -> "INT"
      [] mysql_type = TIMESTAMP -> "TIMESTAMP"
      [] OTHER -> "STRING"

(***************************************************************************)
(* OrderedDict: a sequence of (key, value) in insertion order.             *)
(***************************************************************************)
HasKey(od, k) == \E i \in 1..Len(od) : od[i].key = k

\* od[k] = v: a new key is appended, an existing key keeps its place
SetItem(od, k, v) ==
    IF HasKey(od, k)
    THEN [i \in 1..Len(od) |-> IF od[i].key = k THEN [key |-> k, value |-> v] ELSE od[i]]
    ELSE Append(od, [key |-> k, value |-> v])

\* for field in cursor.description: field_dict[field[0]] = self.type_map(field[1])
RECURSIVE BuildFields(_, _)
BuildFields(od, desc) ==
    IF desc = <<>> THEN od
    ELSE BuildFields(SetItem(od, desc[1].name, type_map(desc[1].type_code)), Tail(desc))

(***************************************************************************)
(* NamedTemporaryFile("wb"): a buffered binary file, deleted when closed.  *)
(***************************************************************************)
NoFile == [created |-> FALSE, exists |-> FALSE, open |-> FALSE,
           buffer |-> <<>>, disk |-> <<>>]

\* NamedTemporaryFile("wb").__enter__
TempFileOpen == [created |-> TRUE, exists |-> TRUE, open |-> TRUE,
                 buffer |-> <<>>, disk |-> <<>>]

\* f.write(data)
FileWrite(file, data) == [file EXCEPT !.buffer = @ \o data]

\* variant: the flush is left out
FileFlushSkipped(file) == file

\* f.flush()
FileFlush(file) == [file EXCEPT !.disk = @ \o file.buffer, !.buffer = <<>>]

\* variant: NamedTemporaryFile(delete=False)
TempFileExitKeep(file) == [file EXCEPT !.open = FALSE, !.disk = @ \o file.buffer, !.buffer = <<>>]

\* leaving the with block: the file is closed, and deleted on close
TempFileExit(file) ==
    [file EXCEPT !.open = FALSE, !.exists = FALSE, !.buffer = <<>>, !.disk = <<>>]

(***************************************************************************)
(* HiveCliHook.load_file: the Warehouse Loader's contract.                 *)
(***************************************************************************)
NoTable == [exists |-> FALSE, schema |-> <<>>, delimiter |-> None,
            tblproperties |-> NoneDict, data |-> <<>>]

\* DROP TABLE IF EXISTS
DropTable(tbl) == NoTable

\* CREATE TABLE IF NOT EXISTS, columns from the Field Dictionary in order
CreateTable(tbl, call) ==
    IF tbl.exists THEN tbl
    ELSE [exists |-> TRUE, schema |-> call.field_dict, delimiter |-> call.delimiter,
          tblproperties |-> call.tblproperties, data |-> <<>>]

\* LOAD DATA LOCAL INPATH ... INTO TABLE ... PARTITION (...)
LoadData(tbl, call, contents, overwrite) ==
    LET kept == IF overwrite
                THEN SelectSeq(tbl.data, LAMBDA r : r.partition # call.partition)
                ELSE tbl.data
    IN [tbl EXCEPT !.data = Append(kept, [partition |-> call.partition,
                                          contents |-> contents])]

\* the outcome of load_file: the error raised, if any, and the table left behind
load_file(call, tbl, file, overwrite) ==
    LET dropped == IF call.recreate THEN DropTable(tbl) ELSE tbl
        created == IF call.create \/ call.recreate THEN CreateTable(dropped, call)
                   ELSE dropped
    IN IF ~file.exists THEN [error |-> "IOError", table |-> tbl]
       ELSE IF ~created.exists THEN [error |-> "TableNotFoundError", table |-> tbl]
       ELSE [error |-> None, table |-> LoadData(created, call, file.disk, overwrite)]

(***************************************************************************)
(* execute                                                                 *)
(***************************************************************************)
NoExc == [kind |-> None, stage |-> None]
Exc(kind, stage) == [kind |-> kind, stage |-> stage]

\* stages that run inside the with block
InWith == {"fields", "rows", "flush", "close", "load"}

\* variant: an error while writing rows is swallowed and the run goes on
OnErrorSwallowRows(stage) ==
    IF stage = "rows" THEN "rows" ELSE IF stage \in InWith THEN "exit" ELSE "done"

\* an exception propagates: through the with block's exit, or straight out
OnError(stage) == IF stage \in InWith THEN "exit" ELSE "done"

\* variant: create left at load_file's default
LoadFileArgsCreateDefault(o, fd) ==
    [filepath |-> "f.name", table |-> o.hive_table, field_dict |-> fd,
     create |-> TRUE, partition |-> o.partition, delimiter |-> o.delimiter,
     recreate |-> o.recreate, tblproperties |-> o.tblproperties]

\* variant: recreate left at load_file's default
LoadFileArgsRecreateDefault(o, fd) ==
    [filepath |-> "f.name", table |-> o.hive_table, field_dict |-> fd,
     create |-> o.create, partition |-> o.partition, delimiter |-> o.delimiter,
     recreate |-> FALSE, tblproperties |-> o.tblproperties]

\* variant: delimiter left at load_file's default
LoadFileArgsDelimiterDefault(o, fd) ==
    [filepath |-> "f.name", table |-> o.hive_table, field_dict |-> fd,
     create |-> o.create, partition |-> o.partition, delimiter |-> COMMA,
     recreate |-> o.recreate, tblproperties |-> o.tblproperties]

\* the keyword arguments of the hive.load_file call
LoadFileArgs(o, fd) ==
    [filepath |-> "f.name",
     table |-> o.hive_table,
     field_dict |-> fd,
     create |-> o.create,
     partition |-> o.partition,
     delimiter |-> o.delimiter,
     recreate |-> o.recreate,
     tblproperties |-> o.tblproperties]

Raise(kind, stage) ==
    /\ exc' = Exc(kind, stage)
    /\ pc' = OnError(stage)

\* conn = mysql.get_conn()
GetConn ==
    /\ pc = "connect"
    /\ conn' = "open"
    /\ pc' = "cursor"
    /\ UNCHANGED <<args, self, db, prior, table, cursor, description, pending, written,
                   f, csv_writer, field_dict, calls, exc>>

GetConnFail ==
    /\ pc = "connect"
    /\ Raise("ConnectionError", "connect")
    /\ UNCHANGED <<args, self, db, prior, table, conn, cursor, description, pending,
                   written, f, csv_writer, field_dict, calls>>

\* cursor = conn.cursor()
ConnCursor ==
    /\ pc = "cursor"
    /\ cursor' = "open"
    /\ pc' = "query"
    /\ UNCHANGED <<args, self, db, prior, table, conn, description, pending, written,
                   f, csv_writer, field_dict, calls, exc>>

\* cursor.execute(self.sql)
CursorExecute ==
    /\ pc = "query"
    /\ description' = db.description
    /\ pending' = db.rows
    /\ pc' = "tempfile"
    /\ UNCHANGED <<args, self, db, prior, table, conn, cursor, written, f, csv_writer,
                   field_dict, calls, exc>>

CursorExecuteFail ==
    /\ pc = "query"
    /\ Raise("QueryError", "query")
    /\ UNCHANGED <<args, self, db, prior, table, conn, cursor, description, pending,
                   written, f, csv_writer, field_dict, calls>>

\* with NamedTemporaryFile("wb") as f
EnterWith ==
    /\ pc = "tempfile"
    /\ f' = TempFileOpen
    /\ pc' = "writer"
    /\ UNCHANGED <<args, self, db, prior, table, conn, cursor, description, pending,
                   written, csv_writer, field_dict, calls, exc>>

EnterWithFail ==
    /\ pc = "tempfile"
    /\ Raise("IOError", "tempfile")
    /\ UNCHANGED <<args, self, db, prior, table, conn, cursor, description, pending,
                   written, f, csv_writer, field_dict, calls>>

\* csv_writer = csv.writer(f, ...); field_dict = OrderedDict()
MakeWriter ==
    /\ pc = "writer"
    /\ csv_writer' = Dialect(self)
    /\ field_dict' = <<>>
    /\ pc' = "fields"
    /\ UNCHANGED <<args, self, db, prior, table, conn, cursor, description, pending,
                   written, f, calls, exc>>

\* the loop over cursor.description
BuildFieldDict ==
    /\ pc = "fields"
    /\ ~description.none
    /\ field_dict' = BuildFields(field_dict, description.cols)
    /\ pc' = "rows"
    /\ UNCHANGED <<args, self, db, prior, table, conn, cursor, description, pending,
                   written, f, csv_writer, calls, exc>>

\* cursor.description is None after a statement that returns no result set
BuildFieldDictFail ==
    /\ pc = "fields"
    /\ description.none
    /\ Raise("TypeError", "fields")
    /\ UNCHANGED <<args, self, db, prior, table, conn, cursor, description, pending,
                   written, f, csv_writer, field_dict, calls>>

\* csv_writer.writerows(cursor): the next row of the cursor
WriteRow ==
    /\ pc = "rows"
    /\ pending # <<>>
    /\ LET r == WriteRowResult(csv_writer, Head(pending)) IN
         IF r.ok
         THEN /\ f' = FileWrite(f, Encode(r.line))
              /\ written' = Append(written, Head(pending))
              /\ pending' = Tail(pending)
              /\ UNCHANGED <<pc, exc>>
         ELSE /\ Raise("csv.Error", "rows")
              /\ pending' = Tail(pending)
              /\ UNCHANGED <<f, written>>
    /\ UNCHANGED <<args, self, db, prior, table, conn, cursor, description, csv_writer,
                   field_dict, calls>>

\* the disk fails under f.write
WriteRowFail ==
    /\ pc = "rows"
    /\ pending # <<>>
    /\ Raise("IOError", "rows")
    /\ pending' = Tail(pending)
    /\ UNCHANGED <<args, self, db, prior, table, conn, cursor, description, written, f,
                   csv_writer, field_dict, calls>>

\* f.flush(), once writerows has consumed the cursor
Flush ==
    /\ pc = "rows"
    /\ pending = <<>>
    /\ f' = FileFlush(f)
    /\ pc' = "close"
    /\ UNCHANGED <<args, self, db, prior, table, conn, cursor, description, pending,
                   written, csv_writer, field_dict, calls, exc>>

FlushFail ==
    /\ pc = "rows"
    /\ pending = <<>>
    /\ Raise("IOError", "flush")
    /\ UNCHANGED <<args, self, db, prior, table, conn, cursor, description, pending,
                   written, f, csv_writer, field_dict, calls>>

\* cursor.close(); conn.close()
CloseSource ==
    /\ pc = "close"
    /\ cursor' = "closed"
    /\ conn' = "closed"
    /\ pc' = "load"
    /\ UNCHANGED <<args, self, db, prior, table, description, pending, written, f,
                   csv_writer, field_dict, calls, exc>>

\* cursor.close() raises
CloseSourceFail ==
    /\ pc = "close"
    /\ Raise("OperationalError", "close")
    /\ UNCHANGED <<args, self, db, prior, table, conn, cursor, description, pending,
                   written, f, csv_writer, field_dict, calls>>

\* hive.load_file(f.name, self.hive_table, ...)
LoadFile ==
    /\ pc = "load"
    /\ \E overwrite \in BOOLEAN :
         LET call == LoadFileArgs(self, field_dict)
             r == load_file(call, table, f, overwrite)
         IN /\ calls' = Append(calls, call)
            /\ table' = r.table
            /\ exc' = IF r.error = None THEN NoExc ELSE Exc(r.error, "load")
            /\ pc' = "exit"
    /\ UNCHANGED <<args, self, db, prior, conn, cursor, description, pending, written, f,
                   csv_writer, field_dict>>

\* the with block is left, normally or by an exception
ExitWith ==
    /\ pc = "exit"
    /\ f' = TempFileExit(f)
    /\ pc' = "done"
    /\ UNCHANGED <<args, self, db, prior, table, conn, cursor, description, pending,
                   written, csv_writer, field_dict, calls, exc>>

Next ==
    \/ GetConn
    \/ GetConnFail
    \/ ConnCursor
    \/ CursorExecute
    \/ CursorExecuteFail
    \/ EnterWith
    \/ EnterWithFail
    \/ MakeWriter
    \/ BuildFieldDict
    \/ BuildFieldDictFail
    \/ WriteRow
    \/ WriteRowFail
    \/ Flush
    \/ FlushFail
    \/ CloseSource
    \/ CloseSourceFail
    \/ LoadFile
    \/ ExitWith

(***************************************************************************)
(* Bounds and the inputs drawn within them.                                *)
(***************************************************************************)
MaxCols == 2
MaxRows == 2
MaxTypeCode == 255

SeqsUpTo(S, n) == UNION {[1..k -> S] : k \in 0..n}

NoDescription == [none |-> TRUE, cols |-> <<>>]

ColumnNames == {"id", "name"}
ColumnTypes == {LONGLONG, VAR_STRING}
Descriptors == [name : ColumnNames, type_code : ColumnTypes]

Descriptions ==
    {NoDescription}
    \cup {[none |-> FALSE, cols |-> c] : c \in SeqsUpTo(Descriptors, MaxCols) \ {<<>>}}

\* every row has one value per result column
RowsOf(desc, values) ==
    IF desc.none THEN {<<>>}
    ELSE SeqsUpTo([1..Len(desc.cols) -> values], MaxRows)

QueryResults(descs, values) ==
    UNION {{[description |-> d, rows |-> r] : r \in RowsOf(d, values)} : d \in descs}

PriorPartition == Dict(<<[key |-> "ds", value |-> "1"]>>)
PriorTable ==
    [exists |-> TRUE,
     schema |-> <<[key |-> "id", value |-> "STRING"]>>,
     delimiter |-> COMMA,
     tblproperties |-> NoneDict,
     data |-> <<[partition |-> PriorPartition, contents |-> <<112>>]>>]

NoDialect == [delimiter |-> None, quoting |-> None, quotechar |-> None,
              escapechar |-> None]

ArgsOf(creates, recreates, partitions, delimiters, quotings, escapechars, props) ==
    [sql : {"SELECT"}, hive_table : {"db.t"}, create : creates, recreate : recreates,
     partition : partitions, delimiter : delimiters, quoting : quotings,
     quotechar : {DQUOTE}, escapechar : escapechars,
     mysql_conn_id : {"mysql_default"}, hive_cli_conn_id : {"hive_cli_default"},
     tblproperties : props]

\* the state once __init__ has returned and before execute starts
Constructed(argset, results) ==
    /\ args \in argset
    /\ self = __init__(args)
    /\ db \in results
    /\ table \in {NoTable, PriorTable}
    /\ prior = table
    /\ pc = "connect"
    /\ conn = "none"
    /\ cursor = "none"
    /\ description = NoDescription
    /\ pending = <<>>
    /\ written = <<>>
    /\ f = NoFile
    /\ csv_writer = NoDialect
    /\ field_dict = <<>>
    /\ calls = <<>>
    /\ exc = NoExc

PipelineArgs ==
    ArgsOf(BOOLEAN, BOOLEAN, {NoneDict, Dict(<<>>), PriorPartition}, {COMMA, PIPE},
           {None, QUOTE_ALL}, {None},
           {NoneDict, Dict(<<[key |-> "k", value |-> "v"]>>)})

Init == Constructed(PipelineArgs, QueryResults(Descriptions, {<<"a">>}))

Spec == Init /\ [][Next]_vars

\* staging: every quoting policy, with and without an escape character, over
\* text values that hold the delimiter, the quote character, a newline
StagingArgs ==
    ArgsOf({TRUE}, {FALSE}, {NoneDict}, {COMMA},
           {QUOTE_MINIMAL, QUOTE_ALL, QUOTE_NONNUMERIC, QUOTE_NONE},
           {None, BACKSLASH}, {NoneDict})

StagingValues == {<<>>, <<"a", COMMA>>, <<DQUOTE, EACUTE>>, <<LF>>}

StagingDescriptions ==
    {NoDescription,
     [none |-> FALSE, cols |-> <<[name |-> "id", type_code |-> VAR_STRING]>>],
     [none |-> FALSE, cols |-> <<[name |-> "id", type_code |-> VAR_STRING],
                                 [name |-> "name", type_code |-> VAR_STRING]>>]}

InitStaging == Constructed(StagingArgs, QueryResults(StagingDescriptions, StagingValues))

SpecStaging == InitStaging /\ [][Next]_vars

(***************************************************************************)
(* Properties                                                              *)
(***************************************************************************)
\* the bytes staging writes for a sequence of rows
StagedBytes(d, rows) ==
    Encode(Flatten([i \in 1..Len(rows) |-> WriteRowResult(d, rows[i]).line]))

\* the formatting configuration the operator was constructed with
Formatting ==
    [delimiter |-> args.delimiter,
     quoting |-> IF args.quoting = None THEN QUOTE_MINIMAL ELSE args.quoting,
     quotechar |-> args.quotechar, escapechar |-> args.escapechar]

TypeCodes == (-1..MaxTypeCode) \cup {9999}

\* the documented mapping, by source semantic type
DocumentedTypes ==
    {<<BIT, "INT">>, <<DECIMAL, "DOUBLE">>, <<NEWDECIMAL, "DOUBLE">>,
     <<DOUBLE, "DOUBLE">>, <<FLOAT, "DOUBLE">>, <<INT24, "INT">>,
     <<LONG, "BIGINT">>, <<LONGLONG, "DECIMAL(38,0)">>, <<SHORT, "INT">>,
     <<TINY, "SMALLINT">>, <<YEAR, "INT">>, <<TIMESTAMP, "TIMESTAMP">>}

Documented(code, hive_type) ==
    IF \E p \in DocumentedTypes : p[1] = code
    THEN <<code, hive_type>> \in DocumentedTypes
    ELSE hive_type = "STRING"

\* type_map over every type code within the bound
TypeMapTable == \A code \in TypeCodes : Documented(code, type_map(code))

\* C1: type_map returns a value for every integer type code: the documented
\* destination type for each mapped code and "STRING" for every other code;
\* every type the Field Dictionary holds is the documented type of a result column.
C1_TypeMapTotal ==
    /\ TypeMapTable
    /\ \A k \in 1..Len(field_dict) :
          \E j \in 1..Len(description.cols) :
             /\ description.cols[j].name = field_dict[k].key
             /\ Documented(description.cols[j].type_code, field_dict[k].value)

C1_Witness ==
    /\ pc = "rows"
    /\ \E k \in 1..Len(field_dict) : field_dict[k].value = "DECIMAL(38,0)"
    /\ \E k \in 1..Len(field_dict) : field_dict[k].value = "STRING"

\* C2: the Field Dictionary handed to the Loader has exactly one entry per result
\* column, in column order: entry i is (name of column i, type_map(type code of
\* column i)) and every staged row has one value per entry.
C2_FieldDictMatchesColumns ==
    \A n \in 1..Len(calls) :
       LET fd == calls[n].field_dict
           cols == description.cols
       IN /\ Len(fd) = Len(cols)
          /\ \A i \in 1..Len(cols) :
                /\ i <= Len(fd)
                /\ fd[i] = [key |-> cols[i].name, value |-> type_map(cols[i].type_code)]
          /\ \A r \in 1..Len(written) : Len(written[r]) = Len(fd)

\* C3: when execute has ended, by success or by an error raised inside the with
\* block, a temporary file that was created no longer exists.
C3_TempFileRemoved ==
    (pc = "done" /\ f.created) => (~f.exists /\ ~f.open)

C3_Witness ==
    /\ pc = "done"
    /\ f.created
    /\ exc.stage = "rows"
    /\ written # <<>>

\* C4: when execute has ended, a source connection that was opened is closed,
\* and so is its cursor.
C4_SourceReleased ==
    (pc = "done" /\ conn # "none") =>
        (conn = "closed" /\ (cursor # "none" => cursor = "closed"))

\* C5 as stated: when the path is handed to the Loader the file is flushed, holds
\* every row of the cursor, and the operator no longer holds it open.
C5_FlushedAndReleased ==
    pc = "load" =>
        /\ f.buffer = <<>>
        /\ f.disk = StagedBytes(Formatting, db.rows)
        /\ ~f.open

\* C5: when the path is handed to the Loader the file exists, is flushed and
\* holds every row of the cursor, and the operator still holds it open; the
\* handle is released only once the Loader has returned.
C5_FlushedStillOpen ==
    /\ pc = "load" =>
          /\ f.exists
          /\ f.buffer = <<>>
          /\ f.disk = StagedBytes(Formatting, db.rows)
          /\ pending = <<>>
          /\ f.open
    /\ (calls # <<>> /\ pc = "exit") => f.open
    /\ pc = "done" => ~f.open

C5_Witness ==
    /\ pc = "load"
    /\ Len(db.rows) = MaxRows
    /\ f.disk # <<>>
    /\ f.open

\* the order of the stages of execute
Rank(p) ==
    CASE p = "connect" -> 0
      [] p = "cursor" -> 1
      [] p = "query" -> 2
      [] p = "tempfile" -> 3
      [] p = "writer" -> 4
      [] p = "fields" -> 5
      [] p = "rows" -> 6
      [] p = "close" -> 7
      [] p = "load" -> 8
      [] p = "exit" -> 9
      [] p = "done" -> 10

C6_State ==
    /\ Len(calls) <= 1
    /\ calls # <<>> =>
          /\ cursor # "none"
          /\ description = db.description
          /\ pending = <<>>
          /\ written = db.rows
    /\ exc.stage \in {"connect", "query", "tempfile", "fields", "rows", "flush", "close"}
          => (calls = <<>> /\ pc \in {"exit", "done"})

C6_Step ==
    /\ Rank(pc') >= Rank(pc)
    /\ exc # NoExc => (exc' = exc /\ calls' = calls /\ table' = table)
    /\ (exc = NoExc /\ exc' # NoExc) => pc' \in {"exit", "done"}

\* C6: the Loader is invoked at most once, and only after the query has run and
\* every row of the cursor has been written; an error at the connection, the
\* query or staging reaches the caller as raised, no stage runs again or after
\* it, and the Loader is never invoked.
C6_SequentialNoRetry == []C6_State /\ [][C6_Step]_vars

C6_Witness ==
    /\ pc = "done"
    /\ exc = Exc("IOError", "rows")
    /\ written # <<>>
    /\ calls = <<>>

C6_WitnessLoaded ==
    /\ pc = "done"
    /\ exc = NoExc
    /\ Len(calls) = 1
    /\ Len(written) = MaxRows

\* C7: with create and recreate both false and no destination table, a run that
\* reaches the Loader fails with TableNotFoundError and leaves the destination
\* as it was: no table, no rows.
C7_TableNotFound ==
    (calls # <<>> /\ ~args.create /\ ~args.recreate /\ ~prior.exists) =>
        /\ exc = Exc("TableNotFoundError", "load")
        /\ table = prior
        /\ ~table.exists
        /\ table.data = <<>>

C7_Witness ==
    /\ pc = "done"
    /\ calls # <<>>
    /\ ~args.create
    /\ ~args.recreate
    /\ ~prior.exists
    /\ written # <<>>

\* C8: with recreate true, after a successful run the destination table is the
\* one created from this run's Field Dictionary and holds the staged file of
\* this run and nothing else, whatever create is.
C8_RecreateReplaces ==
    (pc = "done" /\ exc = NoExc /\ args.recreate) =>
        /\ table.exists
        /\ table.schema = field_dict
        /\ table.data = <<[partition |-> self.partition,
                           contents |-> StagedBytes(Formatting, db.rows)]>>

C8_Witness ==
    /\ pc = "done"
    /\ exc = NoExc
    /\ args.recreate
    /\ ~args.create
    /\ prior.exists
    /\ prior.data # <<>>
    /\ db.rows # <<>>

\* a row the writer cannot format under QUOTE_NONE
Unwritable(d, row) ==
    \/ d.escapechar = None /\ \E i \in 1..Len(row) : HasSpecial(d, row[i])
    \/ row = <<<<>>>>

\* C9 as stated: under every formatting configuration staging raises no
\* formatting error, and the staged file parses back to the cursor's rows.
C9_RoundTripAlways ==
    /\ exc.kind # "csv.Error"
    /\ pc = "load" => Parse(Formatting, f.disk) = [ok |-> TRUE, rows |-> db.rows]

\* C9: under the policies minimal, always and non-numeric staging raises no
\* formatting error; under the policy none it raises one exactly at a row that
\* holds a delimiter, quote or newline character with no escape character set,
\* or that is a single empty value; a staged file parses back to the cursor's
\* rows, value for value and in order.
C9_RoundTrip ==
    /\ exc.kind = "csv.Error" =>
          /\ Formatting.quoting = QUOTE_NONE
          /\ Len(written) < Len(db.rows)
          /\ Unwritable(Formatting, db.rows[Len(written) + 1])
    /\ \A i \in 1..Len(written) :
          Formatting.quoting = QUOTE_NONE => ~Unwritable(Formatting, written[i])
    /\ pc = "load" => Parse(Formatting, f.disk) = [ok |-> TRUE, rows |-> db.rows]

C9_Witness ==
    /\ pc = "load"
    /\ Formatting.quoting = QUOTE_MINIMAL
    /\ Len(db.rows) = MaxRows
    /\ db.rows[1] = <<<<"a", COMMA>>, <<DQUOTE, EACUTE>>>>
    /\ db.rows[2] = <<<<LF>>, <<>>>>

C9_WitnessEscaped ==
    /\ pc = "load"
    /\ Formatting.quoting = QUOTE_NONE
    /\ db.rows # <<>>
    /\ \A i \in 1..Len(db.rows) : \E j \in 1..Len(db.rows[i]) :
          HasSpecial(Formatting, db.rows[i][j])

\* C10: the operator's load options and delimiter stay as given at construction
\* (an absent partition as the empty mapping); the Loader receives them, the
\* delimiter the file was written with, and the Field Dictionary built from
\* this run's cursor description.
C10_OptionsPassedThrough ==
    /\ self.create = args.create
    /\ self.recreate = args.recreate
    /\ self.tblproperties = args.tblproperties
    /\ self.delimiter = args.delimiter
    /\ self.partition = (IF args.partition.none THEN Dict(<<>>) ELSE args.partition)
    /\ \A n \in 1..Len(calls) :
          /\ calls[n].delimiter = csv_writer.delimiter
          /\ calls[n].delimiter = args.delimiter
          /\ calls[n].create = args.create
          /\ calls[n].recreate = args.recreate
          /\ calls[n].tblproperties = args.tblproperties
          /\ calls[n].partition = (IF args.partition.none THEN Dict(<<>>) ELSE args.partition)
          /\ calls[n].table = args.hive_table
          /\ calls[n].field_dict = field_dict
          /\ field_dict = BuildFields(<<>>, db.description.cols)

C10_Witness ==
    /\ calls # <<>>
    /\ args.partition.none
    /\ args.delimiter = PIPE
    /\ ~args.tblproperties.none
    /\ args.recreate
    /\ ~args.create

====
